---- MODULE Spec2Model ----
(***************************************************************************)
(* Model of the two LUT fuzzers of prjfoxtrot:                             *)
(*   generic-lc-lut-1-cell_mask.py  (complementary pair + diff analysis)   *)
(*   generic-lc-lut-4-rand_all.py   (random chain + chain statistics)      *)
(* Python strings are sequences of one-character strings.                  *)
(***************************************************************************)
EXTENDS Integers, Sequences, FiniteSets

VARIABLES call,          \* SpecEnc: the encoder call made and its result
          config,        \* cell-mask: the configuration main() read
          pc,            \* cell-mask: position of the driver
          dyn_params,    \* cell-mask: the group handed to the callback
          results,       \* cell-mask: fuzzer.results
          outcome,       \* cell-mask: how _analyze_results ended
          report,        \* cell-mask: xor list and activated count
          off_file,      \* cell-mask: lines of lut_config_bits_<ts>.off
          db_rows,       \* cell-mask: rows given to save_results_to_db
          chain_cfg,     \* rand-all: the configuration main() read
          groups,        \* rand-all: dynamic_params_list, one set per group
          cur,           \* rand-all: the group run_experiment is at (1-based)
          stats          \* rand-all: what analyze_results did, per group

vars == <<call, config, pc, dyn_params, results, outcome, report, off_file,
          db_rows, chain_cfg, groups, cur, stats>>

\* ------------------------------------------------------------------ bounds
MaxK == 2
MaxBody == 4
MaxRep == 2

\* ------------------------------------------------------- string primitives
Digits == <<"0", "1", "2", "3", "4", "5", "6", "7", "8", "9">>

RECURSIVE DecStr(_)
\* str(n) of a non-negative integer
DecStr(n) == IF n < 10 THEN <<Digits[n + 1]>>
             ELSE DecStr(n \div 10) \o <<Digits[(n % 10) + 1]>>

RECURSIVE Repeat(_, _)
\* s * n  (n <= 0 gives the empty string)
Repeat(s, n) == IF n <= 0 THEN <<>> ELSE s \o Repeat(s, n - 1)

RECURSIVE Concat(_)
\* "".join(list)
Concat(list) == IF list = <<>> THEN <<>> ELSE Head(list) \o Concat(Tail(list))

\* list(reversed(list))
Reversed(list) == [i \in 1..Len(list) |-> list[Len(list) + 1 - i]]

Positions(s, c) == {i \in 1..Len(s) : s[i] = c}

SetMin(S) == CHOOSE m \in S : \A o \in S : m <= o
SetMax(S) == CHOOSE m \in S : \A o \in S : o <= m

\* s.partition(c)[2] : what follows the first c, "" when c does not occur
PartitionTail(s, c) ==
    IF Positions(s, c) = {} THEN <<>>
    ELSE SubSeq(s, SetMin(Positions(s, c)) + 1, Len(s))

\* s.split(c)[-1] : what follows the last c, all of s when c does not occur
SplitLast(s, c) ==
    IF Positions(s, c) = {} THEN s
    ELSE SubSeq(s, SetMax(Positions(s, c)) + 1, Len(s))

\* s.replace("_", "")
StripUnderscores(s) == SelectSeq(s, LAMBDA ch : ch # "_")

\* 1 << k
Shl1(k) == 2 ^ k

\* f"{len(bits)}'b{bits}"
FormatLiteral(bits) == DecStr(Len(bits)) \o <<"'", "b">> \o bits

Raise(e) == [err |-> e, value |-> <<>>]
Return(v) == [err |-> "none", value |-> v]

\* mutant: the pattern is not replicated over the n LUTs
_generate_init_values_once(n, k, pattern) ==
    LET literal == PartitionTail(pattern, "b")
        bits == StripUnderscores(literal)
        lut_bits == Shl1(k)
    IN  IF Len(bits) # lut_bits THEN Raise("WidthMismatch")
        ELSE Return(FormatLiteral(bits))

\* ------------------------------------------------- cell-mask: the encoder
_generate_init_values(n, k, pattern) ==
    LET literal == PartitionTail(pattern, "b")
        bits == StripUnderscores(literal)
        lut_bits == Shl1(k)
    IN  IF Len(bits) # lut_bits THEN Raise("WidthMismatch")
        ELSE Return(FormatLiteral(Repeat(bits, n)))

\* mutant: a literal that is too long is cut to 2^k bits
_plain_bits_truncating(pattern, k) ==
    LET bits == StripUnderscores(SplitLast(pattern, "b"))
    IN  IF Len(bits) < Shl1(k) THEN Raise("WidthMismatch")
        ELSE Return(SubSeq(bits, 1, Shl1(k)))

\* ---------------------------------------------------- rand-all: the encoder
_plain_bits(pattern, k) ==
    LET bits == StripUnderscores(SplitLast(pattern, "b"))
    IN  IF Len(bits) # Shl1(k) THEN Raise("WidthMismatch")
        ELSE Return(bits)

RECURSIVE RandomFill(_, _, _)
\* while len(static_bits) < n: static_bits.append(<next random 2^k-bit draw>)
RandomFill(static_bits, n, stream) ==
    IF Len(static_bits) < n /\ stream # <<>>
    THEN RandomFill(Append(static_bits, Head(stream)), n, Tail(stream))
    ELSE static_bits

\* mutant: the slices are joined in logical order, LUT 0 first
_build_flat_init_literal_unreversed(n, k, static_patterns, rnd) ==
    LET encoded == [i \in 1..Len(static_patterns) |->
                        _plain_bits(static_patterns[i], k)]
        static_bits == [i \in 1..Len(static_patterns) |-> encoded[i].value]
    IN  IF \E i \in 1..Len(static_patterns) : encoded[i].err # "none"
        THEN [err |-> "WidthMismatch", value |-> <<>>, drawn |-> 0]
        ELSE IF Len(static_bits) > n
        THEN [err |-> "Overflow", value |-> <<>>, drawn |-> 0]
        ELSE LET filled == RandomFill(static_bits, n, rnd)
                 flat_bits == Concat(filled)
             IN  [err |-> "none", value |-> FormatLiteral(flat_bits),
                  drawn |-> Len(filled) - Len(static_bits)]

\* mutant: a full static list is taken for an overflow
_build_flat_init_literal_strict(n, k, static_patterns, rnd) ==
    LET encoded == [i \in 1..Len(static_patterns) |->
                        _plain_bits(static_patterns[i], k)]
        static_bits == [i \in 1..Len(static_patterns) |-> encoded[i].value]
    IN  IF \E i \in 1..Len(static_patterns) : encoded[i].err # "none"
        THEN [err |-> "WidthMismatch", value |-> <<>>, drawn |-> 0]
        ELSE IF Len(static_bits) >= n
        THEN [err |-> "Overflow", value |-> <<>>, drawn |-> 0]
        ELSE LET filled == RandomFill(static_bits, n, rnd)
                 flat_bits == Concat(Reversed(filled))
             IN  [err |-> "none", value |-> FormatLiteral(flat_bits),
                  drawn |-> Len(filled) - Len(static_bits)]

\* rnd is the stream of random.choice draws, one 2^k-bit string per slot
_build_flat_init_literal(n, k, static_patterns, rnd) ==
    LET encoded == [i \in 1..Len(static_patterns) |->
                        _plain_bits(static_patterns[i], k)]
        static_bits == [i \in 1..Len(static_patterns) |-> encoded[i].value]
    IN  IF \E i \in 1..Len(static_patterns) : encoded[i].err # "none"
        THEN [err |-> "WidthMismatch", value |-> <<>>, drawn |-> 0]
        ELSE IF Len(static_bits) > n
        THEN [err |-> "Overflow", value |-> <<>>, drawn |-> 0]
        ELSE LET filled == RandomFill(static_bits, n, rnd)
                 flat_bits == Concat(Reversed(filled))
             IN  [err |-> "none", value |-> FormatLiteral(flat_bits),
                  drawn |-> Len(filled) - Len(static_bits)]

\* ------------------------------------------------------------ input sets
MaxN == 2
MaxStatic == 2
MaxChainK == 1

BitSeqs(len) == [1..len -> {"0", "1"}]
BodyChars == {"0", "1", "_", "x"}
Bodies == UNION {[1..l -> BodyChars] : l \in 0..MaxBody}
DeclWidths == 1..Shl1(MaxK)

\* a width-tagged literal  <width>'b<body>
Tagged(w, body) == DecStr(w) \o <<"'", "b">> \o body

Grouped(bits) == IF Len(bits) >= 2 THEN <<bits[1], "_">> \o Tail(bits) ELSE bits
\* static_init_values entries tried for a chain of K = k: every 2^k-bit
\* literal, plain and with a grouping separator, and one literal too long
LiteralPool(k) ==
    {Tagged(Shl1(k), b) : b \in BitSeqs(Shl1(k))}
      \cup {Tagged(Shl1(k), Grouped(b)) : b \in BitSeqs(Shl1(k))}
      \cup {Tagged(Shl1(k), Repeat(<<"0">>, Shl1(k) + 1))}
StaticLists(k) == UNION {[1..l -> LiteralPool(k)] : l \in 0..MaxStatic}
\* the draws the fill loop makes: one string per free slot
Streams(n, k, statics) ==
    IF Len(statics) >= n THEN {<<>>}
    ELSE [1..(n - Len(statics)) -> BitSeqs(Shl1(k))]

NoCall == [fn |-> "none", n |-> 0, k |-> 0, w |-> 0, body |-> <<>>,
           pats |-> <<>>, rnd |-> <<>>, res |-> Return(<<>>)]

\* ---------------------------------------------------- SpecEnc: the encoders
NoConfig == [n |-> 0, k |-> 0, chunk_luts |-> 0, base_pat |-> <<>>,
             inv_pat |-> <<>>, noise |-> {}]
NoReport == [xor |-> <<>>, activated |-> 0]
NothingAnalyzed == /\ dyn_params = <<>> /\ results = <<>> /\ outcome = "none"
                   /\ report = NoReport /\ off_file = <<>> /\ db_rows = <<>>
IdleDiff == pc = "idle" /\ config = NoConfig /\ NothingAnalyzed
NoChainCfg == [n |-> 0, k |-> 0, chunk_luts |-> 0, iterations |-> 0,
               static_init |-> <<>>, rnds |-> <<>>]
IdleChain == chain_cfg = NoChainCfg /\ groups = <<>> /\ cur = 0 /\ stats = <<>>
diffVars == <<config, pc, dyn_params, results, outcome, report, off_file,
              db_rows>>
chainVars == <<chain_cfg, groups, cur, stats>>

Pending == [err |-> "pending", value |-> <<>>]
Done == call.res.err # "pending"

EncoderArgs(f, n, k, w, body) ==
    [fn |-> f, n |-> n, k |-> k, w |-> w, body |-> body,
     pats |-> <<Tagged(w, body)>>, rnd |-> <<>>, res |-> Pending]
ChainArgs(n, k, statics, rnd) ==
    [fn |-> "flat", n |-> n, k |-> k, w |-> 0, body |-> <<>>,
     pats |-> statics, rnd |-> rnd, res |-> Pending]

\* the calls tried: both encoders on every tagged literal, the chain builder
\* on every list of pool literals and every outcome of its random draws
InitEnc ==
    /\ \/ \E n \in 0..MaxRep, k \in 0..MaxK, w \in DeclWidths, body \in Bodies :
              call = EncoderArgs("generate", n, k, w, body)
       \/ \E k \in 0..MaxK, w \in DeclWidths, body \in Bodies :
              call = EncoderArgs("plain", 1, k, w, body)
       \/ \E n \in 0..MaxN, k \in 0..MaxChainK :
            \E statics \in StaticLists(k) :
              \E rnd \in Streams(n, k, statics) :
                  call = ChainArgs(n, k, statics, rnd)
    /\ IdleDiff /\ IdleChain

GenerateInitValues ==
    /\ call.fn = "generate" /\ ~Done
    /\ call' = [call EXCEPT !.res =
                   _generate_init_values(call.n, call.k, call.pats[1])]
    /\ UNCHANGED <<diffVars, chainVars>>

PlainBits ==
    /\ call.fn = "plain" /\ ~Done
    /\ call' = [call EXCEPT !.res = _plain_bits(call.pats[1], call.k)]
    /\ UNCHANGED <<diffVars, chainVars>>

BuildFlatInitLiteral ==
    /\ call.fn = "flat" /\ ~Done
    /\ call' = [call EXCEPT !.res =
                   _build_flat_init_literal(call.n, call.k, call.pats, call.rnd)]
    /\ UNCHANGED <<diffVars, chainVars>>

NextEnc == GenerateInitValues \/ PlainBits \/ BuildFlatInitLiteral
SpecEnc == InitEnc /\ [][NextEnc]_vars

\* ------------------------------------------------ cell-mask: the driver
_MAX_LUTS_PER_PARAMETER == 256

\* foxtrot_core.bitgen.params.build_param_set: the index, the chunking
\* directive and the template fields of one build
build_param_set(index, chunk_bits, chunk_keys, N, K, CHUNK_LUTS, INIT) ==
    [param_index |-> index, chunk_bits |-> chunk_bits, chunk_keys |-> chunk_keys,
     verilog_parameters |-> [N |-> N, K |-> K, CHUNK_LUTS |-> CHUNK_LUTS,
                             INIT |-> INIT]]

\* mutant: the inverted set is built from the base pattern
main_cell_mask_samepattern(n, k, chunk_luts, base_pat, inv_pat) ==
    LET chunk_bits == Shl1(k) * chunk_luts
        base_init == _generate_init_values(n, k, base_pat)
        inv_init == _generate_init_values(n, k, base_pat)
    IN  IF base_init.err # "none" THEN [err |-> base_init.err, groups |-> <<>>]
        ELSE IF inv_init.err # "none" THEN [err |-> inv_init.err, groups |-> <<>>]
        ELSE [err |-> "none",
              groups |-> << <<build_param_set(0, chunk_bits, {"INIT"}, n, k,
                                              chunk_luts, base_init.value),
                              build_param_set(1, chunk_bits, {"INIT"}, n, k,
                                              chunk_luts, inv_init.value)>> >>]

\* main() up to the call of run_experiment: the dynamic_params_list it builds
main_cell_mask(n, k, chunk_luts, base_pat, inv_pat) ==
    LET chunk_bits == Shl1(k) * chunk_luts
        base_init == _generate_init_values(n, k, base_pat)
        inv_init == _generate_init_values(n, k, inv_pat)
    IN  IF base_init.err # "none" THEN [err |-> base_init.err, groups |-> <<>>]
        ELSE IF inv_init.err # "none" THEN [err |-> inv_init.err, groups |-> <<>>]
        ELSE [err |-> "none",
              groups |-> << <<build_param_set(0, chunk_bits, {"INIT"}, n, k,
                                              chunk_luts, base_init.value),
                              build_param_set(1, chunk_bits, {"INIT"}, n, k,
                                              chunk_luts, inv_init.value)>> >>]

\* ---------------------------------------------- cell-mask: the analysis
RECURSIVE Sorted(_)
\* sorted(S) of a set of integers
Sorted(S) == IF S = {} THEN <<>>
             ELSE <<SetMin(S)>> \o Sorted(S \ {SetMin(S)})

\* mutant: the union, common offsets do not cancel
SymmetricDifference_union(A, B) == A \cup B

SymmetricDifference(A, B) == (A \ B) \cup (B \ A)

\* math.ceil(a / b) for a >= 0, b > 0
CeilDiv(a, b) == (a + b - 1) \div b

\* next((r for r in rows if r["param_index"] == idx), None): the position of
\* the first such row, 0 for None
FirstWithIndex(rows, idx) ==
    IF \E i \in 1..Len(rows) : rows[i].param_index = idx
    THEN SetMin({i \in 1..Len(rows) : rows[i].param_index = idx})
    ELSE 0

\* _extra(res): the columns added to one persisted row
_extra(res, xor, activated) ==
    [param_index |-> res.param_index,
     pattern_type |-> IF res.param_index = 0 THEN "base" ELSE "inverted",
     lut_config_bits |-> xor,
     activated_luts |-> activated]

Aborted == [outcome |-> "aborted", report |-> NoReport, off_file |-> <<>>,
            db_rows |-> <<>>]
KeyError == [outcome |-> "raised", report |-> NoReport, off_file |-> <<>>,
             db_rows |-> <<>>]

\* mutant: a group of more than two runs is analyzed too
_analyze_results_atleasttwo(rows, dyn) ==
    IF Len(dyn) < 2 THEN Aborted
    ELSE LET b == FirstWithIndex(rows, 0)
             i == FirstWithIndex(rows, 1)
         IN  IF b = 0 \/ i = 0 THEN Aborted
             ELSE IF ~rows[b].data.present \/ ~rows[i].data.present THEN KeyError
             ELSE LET xor == Sorted(SymmetricDifference(rows[b].data.offsets,
                                                        rows[i].data.offsets))
                      k == dyn[1].verilog_parameters.K
                      activated == CeilDiv(Len(xor), Shl1(k))
                  IN  [outcome |-> "analyzed",
                       report |-> [xor |-> xor, activated |-> activated],
                       off_file |-> <<xor>>,
                       db_rows |-> [r \in 1..Len(rows) |->
                                       _extra(rows[r], xor, activated)]]

\* off_file: <<xor>> when the artifact was written (its content), <<>> when not
_analyze_results(rows, dyn) ==
    IF Len(dyn) # 2 THEN Aborted
    ELSE LET b == FirstWithIndex(rows, 0)
             i == FirstWithIndex(rows, 1)
         IN  IF b = 0 \/ i = 0 THEN Aborted
             ELSE IF ~rows[b].data.present \/ ~rows[i].data.present THEN KeyError
             ELSE LET xor == Sorted(SymmetricDifference(rows[b].data.offsets,
                                                        rows[i].data.offsets))
                      k == dyn[1].verilog_parameters.K
                      activated == CeilDiv(Len(xor), Shl1(k))
                  IN  [outcome |-> "analyzed",
                       report |-> [xor |-> xor, activated |-> activated],
                       off_file |-> <<xor>>,
                       db_rows |-> [r \in 1..Len(rows) |->
                                       _extra(rows[r], xor, activated)]]

\* ------------------------------------------- cell-mask: the build facility
MaxOff == 2
MaxDyn == 3
MaxDiffK == 1
NoiseSpan == 2
MaxChunk == 2

Offsets == 0..(MaxOff - 1)
\* a result row of one build: a successful build reports its offsets; a
\* failed one reports none, or carries no data at all
BuildRows(idx) ==
    {[param_index |-> idx, success |-> TRUE,
      data |-> [present |-> TRUE, offsets |-> o]] : o \in SUBSET Offsets}
      \cup {[param_index |-> idx, success |-> FALSE,
             data |-> [present |-> pr, offsets |-> {}]] : pr \in BOOLEAN}

Built == {results[i].param_index : i \in 1..Len(results)}

Analyze(at) ==
    /\ pc = at
    /\ LET a == _analyze_results(results, dyn_params)
       IN  /\ outcome' = a.outcome
           /\ report' = a.report
           /\ off_file' = a.off_file
           /\ db_rows' = a.db_rows
    /\ pc' = "done"
    /\ UNCHANGED <<call, config, dyn_params, results, chainVars>>

\* ------------------------- SpecDiff: _analyze_results on any group of runs
InitDiff == call = NoCall /\ pc = "submit" /\ config = NoConfig
            /\ NothingAnalyzed /\ IdleChain

\* the facility takes a group of sz parameter sets of some K
SubmitGroup ==
    \E sz \in 0..MaxDyn, k \in 0..MaxDiffK :
        /\ pc = "submit"
        /\ dyn_params' = [j \in 1..sz |->
               build_param_set(j - 1, Shl1(k), {"INIT"}, 1, k, 1,
                               FormatLiteral(Repeat(<<"0">>, Shl1(k))))]
        /\ pc' = "build"
        /\ UNCHANGED <<call, config, results, outcome, report, off_file,
                       db_rows, chainVars>>

\* one build of the group ends, in any order, and appends its row
BuildDone ==
    \E j \in 1..Len(dyn_params) :
      \E row \in BuildRows(dyn_params[j].param_index) :
        /\ pc = "build"
        /\ dyn_params[j].param_index \notin Built
        /\ results' = Append(results, row)
        /\ UNCHANGED <<call, config, pc, dyn_params, outcome, report, off_file,
                       db_rows, chainVars>>

\* the callback runs on whatever rows exist when the group is over
AnalyzePartial == Analyze("build")

NextDiff == SubmitGroup \/ BuildDone \/ AnalyzePartial
SpecDiff == InitDiff /\ [][NextDiff]_vars

\* ------------------ SpecPair: main() of cell-mask under an idealized image
MaxPairK == 1

\* the patterns main() falls back to, and the spec's example of N = 3, K = 4
DefaultBase == <<"1", "6", "'", "b", "0", "0", "0", "1", "_", "0", "1", "1", "0",
                 "_", "0", "1", "1", "0", "_", "1", "0", "0", "0">>
DefaultInv == <<"1", "6", "'", "b", "1", "1", "1", "0", "_", "1", "0", "0", "1",
                "_", "1", "0", "0", "1", "_", "0", "1", "1", "1">>
DefaultConfig == [n |-> 3, k |-> 4, chunk_luts |-> _MAX_LUTS_PER_PARAMETER,
                  base_pat |-> DefaultBase, inv_pat |-> DefaultInv, noise |-> {}]

PairConfig(n, k, c, b, i) ==
    [n |-> n, k |-> k, chunk_luts |-> c, base_pat |-> b, inv_pat |-> i,
     noise |-> {}]

\* the idealized image: content bit j of INIT has its own offset, set iff the
\* bit is 1; the other offsets (noise) do not depend on INIT
IdealImage(init, noise) ==
    LET payload == PartitionTail(init, "b")
    IN  noise \cup {NoiseSpan + j - 1 : j \in {p \in 1..Len(payload) :
                                                  payload[p] = "1"}}

InitPair ==
    /\ call = NoCall /\ pc = "main" /\ NothingAnalyzed /\ IdleChain
    /\ \/ \E n \in 0..MaxRep, k \in 0..MaxPairK, c \in 1..MaxChunk :
            \E b \in LiteralPool(k), i \in LiteralPool(k) :
                config = PairConfig(n, k, c, b, i)
       \/ config = DefaultConfig

MainCellMask ==
    /\ pc = "main"
    /\ LET m == main_cell_mask(config.n, config.k, config.chunk_luts,
                               config.base_pat, config.inv_pat)
       IN  IF m.err # "none"
           THEN pc' = "raised" /\ dyn_params' = <<>>
           ELSE pc' = "run" /\ dyn_params' = m.groups[1]
    /\ UNCHANGED <<call, config, results, outcome, report, off_file, db_rows,
                   chainVars>>

\* run_experiment: both builds succeed, in either order
IdealBuild ==
    \E noise \in SUBSET (0..(NoiseSpan - 1)), first \in {1, 2} :
        /\ pc = "run"
        /\ config' = [config EXCEPT !.noise = noise]
        /\ LET row(j) == [param_index |-> dyn_params[j].param_index,
                          success |-> TRUE,
                          data |-> [present |-> TRUE,
                                    offsets |-> IdealImage(
                                        dyn_params[j].verilog_parameters.INIT,
                                        noise)]]
           IN  results' = <<row(first), row(3 - first)>>
        /\ pc' = "built"
        /\ UNCHANGED <<call, dyn_params, outcome, report, off_file, db_rows,
                       chainVars>>

AnalyzeComplete == Analyze("built")

NextPair == MainCellMask \/ IdealBuild \/ AnalyzeComplete
SpecPair == InitPair /\ [][NextPair]_vars

\* ------------------------------------------------- rand-all: the driver
\* main() up to the call of run_experiment; rnds[i] is the stream of random
\* draws of iteration i
main_rand_all(n, k, chunk_luts, iterations, static_init, rnds) ==
    LET chunk_bits == Shl1(k) * chunk_luts
        flat(idx) == _build_flat_init_literal(n, k, static_init, rnds[idx + 1])
    IN  IF \E idx \in 0..(iterations - 1) : flat(idx).err # "none"
        THEN [err |-> flat(0).err, groups |-> <<>>]
        ELSE [err |-> "none",
              groups |-> [g \in 1..iterations |->
                  <<build_param_set(g - 1, chunk_bits, {"INIT"}, n, k,
                                    chunk_luts, flat(g - 1).value)>>]]

\* f"{a / b:.2f}" in hundredths, ties to even
Hundredths(a, b) ==
    LET q == (100 * a) \div b
        r == (100 * a) % b
    IN  IF 2 * r > b \/ (2 * r = b /\ q % 2 = 1) THEN q + 1 ELSE q

\* analyze_results(fuzzer, dynamic_params); row is the position in
\* fuzzer.results of the row it used, 0 when it found none
analyze_results(rows, dynamic_params, static_cnt) ==
    LET param_set == dynamic_params[1]
        matching == {i \in 1..Len(rows) :
                        /\ rows[i].success
                        /\ rows[i].params.verilog_parameters
                              = param_set.verilog_parameters}
    IN  IF matching = {}
        THEN [outcome |-> "skipped", row |-> 0, total_luts |-> 0,
              total_bits |-> 0, bits_per_lut |-> 0, static_luts |-> 0]
        ELSE LET result == rows[SetMin(matching)]
                 total_bits == Cardinality(result.data.offsets)
                 total_luts == param_set.verilog_parameters.N
             IN  IF total_luts = 0
                 THEN [outcome |-> "raised", row |-> SetMin(matching),
                       total_luts |-> 0, total_bits |-> total_bits,
                       bits_per_lut |-> 0, static_luts |-> 0]
                 ELSE [outcome |-> "saved", row |-> SetMin(matching),
                       total_luts |-> total_luts, total_bits |-> total_bits,
                       bits_per_lut |-> Hundredths(total_bits, total_luts),
                       static_luts |-> static_cnt]

\* ---------------------------- SpecChain: main() of rand-all and its groups
MaxIter == 2

\* chains of one-bit LUTs (K = 0) keep the random fill enumerable
\* with the random draws of every iteration
ChainConfig(n, it, st, rnds) ==
    [n |-> n, k |-> 0, chunk_luts |-> 256, iterations |-> it,
     static_init |-> st, rnds |-> rnds]

\* the row of one build of the chain design
ChainRows(param_set) ==
    {[param_index |-> param_set.param_index, success |-> TRUE,
      params |-> param_set,
      data |-> [present |-> TRUE, offsets |-> o]] : o \in SUBSET Offsets}
      \cup {[param_index |-> param_set.param_index, success |-> FALSE,
             params |-> param_set,
             data |-> [present |-> FALSE, offsets |-> {}]]}

InitChain == /\ call = NoCall /\ pc = "main" /\ config = NoConfig
             /\ NothingAnalyzed
             /\ groups = <<>> /\ cur = 0 /\ stats = <<>>
             /\ \E n \in 1..MaxN, it \in 1..MaxIter :
                  \E st \in StaticLists(0) :
                    \E rnds \in [1..it -> Streams(n, 0, st)] :
                        chain_cfg = ChainConfig(n, it, st, rnds)

MainRandAll ==
    /\ pc = "main"
    /\ LET c == chain_cfg
           m == main_rand_all(c.n, c.k, c.chunk_luts, c.iterations,
                              c.static_init, c.rnds)
       IN  IF m.err # "none"
           THEN pc' = "raised" /\ groups' = <<>> /\ cur' = 0
           ELSE pc' = "build" /\ groups' = m.groups /\ cur' = 1
    /\ UNCHANGED <<call, config, dyn_params, results, outcome, report,
                   off_file, db_rows, chain_cfg, stats>>

\* run_experiment: the build of the current group ends and appends its row
ChainBuildDone ==
    /\ pc = "build"
    /\ \E row \in ChainRows(groups[cur][1]) :
          results' = Append(results, row)
    /\ pc' = "analyze"
    /\ UNCHANGED <<call, config, dyn_params, outcome, report, off_file,
                   db_rows, chain_cfg, groups, cur, stats>>

\* run_experiment: the callback of the current group, then the next group
ChainAnalyze ==
    /\ pc = "analyze"
    /\ stats' = Append(stats, analyze_results(results, groups[cur],
                                              Len(chain_cfg.static_init)))
    /\ IF cur < Len(groups)
       THEN pc' = "build" /\ cur' = cur + 1
       ELSE pc' = "done" /\ cur' = cur
    /\ UNCHANGED <<call, config, dyn_params, results, outcome, report,
                   off_file, db_rows, chain_cfg, groups>>

NextChain == MainRandAll \/ ChainBuildDone \/ ChainAnalyze
SpecChain == InitChain /\ [][NextChain]_vars

\* ------------------------------------------------- properties of SpecEnc
\* the 0/1 characters of a literal body, in order
OnlyBits(body) == SelectSeq(body, LAMBDA ch : ch \in {"0", "1"})
WellFormed(body) == \A i \in 1..Len(body) : body[i] \in {"0", "1", "_"}
\* what follows <width>'b in a literal
TickPos(lit) == SetMin(Positions(lit, "'"))
AfterPrefix(lit) == SubSeq(lit, TickPos(lit) + 2, Len(lit))
DeclaredPrefix(lit) == SubSeq(lit, 1, TickPos(lit))
\* the i-th w-bit slice of a payload counted from the rightmost end, i >= 0
SliceFromRight(payload, i, w) ==
    SubSeq(payload, Len(payload) - (i + 1) * w + 1, Len(payload) - i * w)
Count(list, e) == Cardinality({i \in 1..Len(list) : list[i] = e})

EncoderCall == call.fn \in {"generate", "plain"} /\ Done
\* the bit sequence an encoder call produced for one LUT
EncodedBits == IF call.fn = "plain" THEN call.res.value
               ELSE AfterPrefix(call.res.value)

\* C6: on a well-formed width-tagged literal both encoders succeed iff the
\* body stripped of separators has exactly 2^k bits; on success the encoded
\* bits are the stripped body unchanged (n copies of it for the replicating
\* encoder); any other length raises the width mismatch.
C6_WidthCheck ==
    (EncoderCall /\ WellFormed(call.body)) =>
        /\ (call.res.err = "none") <=> (Len(OnlyBits(call.body)) = 2 ^ call.k)
        /\ call.res.err \in {"none", "WidthMismatch"}
        /\ call.res.err = "none" =>
              /\ EncodedBits = Repeat(OnlyBits(call.body), call.n)
              /\ Len(EncodedBits) = call.n * (2 ^ call.k)
        /\ call.res.err # "none" => call.res.value = <<>>

C6_Witness ==
    /\ call.fn = "plain" /\ call.res.err = "none" /\ call.k = 1
    /\ Positions(call.body, "_") # {} /\ WellFormed(call.body)

\* C7 (as claimed): a literal whose declared width differs from 2^k is
\* rejected, and every accepted literal has len(bits) = declared width with
\* every bit in {0,1}.
C7_DeclaredWidthChecked ==
    EncoderCall =>
        /\ call.w # 2 ^ call.k => call.res.err # "none"
        /\ call.res.err = "none" =>
              /\ Len(StripUnderscores(call.body)) = call.w
              /\ \A i \in 1..Len(call.body) : call.body[i] \in {"0", "1", "_"}

FlatCall == call.fn = "flat" /\ Done
FlatPayload == AfterPrefix(call.res.value)
\* content of the LUT at logical index i (0-based) of the current chain
ChainContent(i) ==
    IF i < Len(call.pats) THEN OnlyBits(AfterPrefix(call.pats[i + 1]))
    ELSE call.rnd[i - Len(call.pats) + 1]

\* C5: LUT i occupies the i-th 2^k-bit slice from the least-significant end
\* of the flat literal, and swapping two statics of different content gives
\* a different literal whatever the random fill.
C5_PackingOrder ==
    (FlatCall /\ call.res.err = "none") =>
        /\ \A i \in 0..(call.n - 1) :
              SliceFromRight(FlatPayload, i, 2 ^ call.k) = ChainContent(i)
        /\ (Len(call.pats) = 2 /\ ChainContent(0) # ChainContent(1)) =>
              \A r2 \in Streams(call.n, call.k, call.pats) :
                  _build_flat_init_literal(call.n, call.k,
                      <<call.pats[2], call.pats[1]>>, r2).value
                    # call.res.value

C5_Witness ==
    /\ FlatCall /\ call.res.err = "none" /\ call.n = 2 /\ call.k = 1
    /\ Len(call.pats) = 2 /\ ChainContent(0) # ChainContent(1)

StaticsWellFormed ==
    \A i \in 1..Len(call.pats) :
        /\ WellFormed(AfterPrefix(call.pats[i]))
        /\ Len(OnlyBits(AfterPrefix(call.pats[i]))) = 2 ^ call.k

\* C8: with well-formed statics the chain builder raises the overflow error
\* iff len(static) > n; otherwise the literal has declared width n*2^k, its n
\* slices are the statics once each plus n - len(static) random draws, and a
\* full static list makes no draw.
C8_SlotAccounting ==
    (FlatCall /\ StaticsWellFormed) =>
        /\ Len(call.pats) > call.n => call.res.err = "Overflow"
        /\ Len(call.pats) <= call.n =>
              /\ call.res.err = "none"
              /\ DeclaredPrefix(call.res.value)
                    = DecStr(call.n * (2 ^ call.k)) \o <<"'">>
              /\ Len(FlatPayload) = call.n * (2 ^ call.k)
              /\ call.res.drawn = call.n - Len(call.pats)
              /\ \A s \in BitSeqs(2 ^ call.k) :
                    Cardinality({i \in 0..(call.n - 1) :
                        SliceFromRight(FlatPayload, i, 2 ^ call.k) = s})
                      = Cardinality({i \in 1..Len(call.pats) :
                            OnlyBits(AfterPrefix(call.pats[i])) = s})
                        + Count(call.rnd, s)
              /\ Len(call.pats) = call.n =>
                    \A r2 \in [1..1 -> BitSeqs(2 ^ call.k)] :
                        _build_flat_init_literal(call.n, call.k, call.pats, r2)
                          = call.res

C8_Witness ==
    /\ FlatCall /\ StaticsWellFormed /\ call.res.err = "none"
    /\ Len(call.pats) = call.n /\ call.n = 2

\* -------------------------------------- properties of SpecDiff, SpecPair
RowsWithIndex(idx) ==
    {results[j] : j \in {q \in 1..Len(results) : results[q].param_index = idx}}
BaseRow == CHOOSE r \in RowsWithIndex(0) : TRUE
InvRow == CHOOSE r \in RowsWithIndex(1) : TRUE
Elements(list) == {list[j] : j \in 1..Len(list)}
StrictlyAscending(list) ==
    \A a \in 1..Len(list), b \in 1..Len(list) : a < b => list[a] < list[b]
ExperimentK == dyn_params[1].verilog_parameters.K
NothingWritten == off_file = <<>> /\ db_rows = <<>>

\* C1: a produced report lists exactly the offsets that are in one of the two
\* offset sets and not in the other, strictly ascending, and its LUT count is
\* ceil(len / 2^K): the least c with c * 2^K >= len.
C1_DiffReport ==
    outcome = "analyzed" =>
        /\ Elements(report.xor) =
              {o \in BaseRow.data.offsets \cup InvRow.data.offsets :
                  (o \in BaseRow.data.offsets) # (o \in InvRow.data.offsets)}
        /\ StrictlyAscending(report.xor)
        /\ report.activated * (2 ^ ExperimentK) >= Len(report.xor)
        /\ (report.activated - 1) * (2 ^ ExperimentK) < Len(report.xor)
        /\ report.activated >= 0
        /\ off_file = <<report.xor>>

C1_Witness ==
    /\ outcome = "analyzed" /\ report.xor # <<>> /\ ExperimentK = 1
    /\ BaseRow.data.offsets \cap InvRow.data.offsets # {}

\* C3 (as claimed): when the row of param_index 0 or of param_index 1 has
\* success = false, the analysis computes no report, writes no artifact and
\* saves no row.
C3_FailedBuildAborts ==
    (pc = "done" /\ \E j \in 1..Len(results) :
                       results[j].param_index \in {0, 1} /\ ~results[j].success)
        => (report = NoReport /\ NothingWritten)

\* C4: when the group has not two runs, or not two results, or the row of
\* param_index 0 or 1 is missing, the analysis returns normally and nothing
\* is written; artifact and DB rows exist only if both rows were found.
C4_AbortLeavesNoTrace ==
    pc = "done" =>
        /\ (\/ Len(dyn_params) # 2 \/ Len(results) # 2
            \/ RowsWithIndex(0) = {} \/ RowsWithIndex(1) = {})
              => (outcome = "aborted" /\ NothingWritten)
        /\ ~NothingWritten =>
              (RowsWithIndex(0) # {} /\ RowsWithIndex(1) # {}
               /\ Len(dyn_params) = 2)

C4_Witness ==
    /\ pc = "done" /\ Len(dyn_params) = 3 /\ outcome = "aborted"
    /\ RowsWithIndex(0) # {} /\ RowsWithIndex(1) # {} /\ NothingWritten

ConfigBits(pat) == OnlyBits(AfterPrefix(pat))
ContentWidth == 2 ^ config.k
PairAccepted == /\ Len(ConfigBits(config.base_pat)) = ContentWidth
                /\ Len(ConfigBits(config.inv_pat)) = ContentWidth
TrueComplement ==
    /\ PairAccepted
    /\ \A j \in 1..ContentWidth :
          ConfigBits(config.base_pat)[j] # ConfigBits(config.inv_pat)[j]
ExpectedInit(pat) ==
    DecStr(config.n * ContentWidth) \o <<"'", "b">>
        \o Repeat(ConfigBits(pat), config.n)

\* C2: with a truly complementary pair and the idealized image, the diff is
\* exactly the n * 2^k content-bit offsets and the affected-LUT count is n.
C2_ComplementaryPair ==
    (pc = "done" /\ TrueComplement) =>
        /\ outcome = "analyzed"
        /\ Elements(report.xor) =
              NoiseSpan..(NoiseSpan + config.n * ContentWidth - 1)
        /\ Len(report.xor) = config.n * ContentWidth
        /\ report.activated = config.n

C2_Witness ==
    /\ pc = "done" /\ TrueComplement /\ config.n = 2 /\ config.k = 1
    /\ config.noise # {} /\ outcome = "analyzed"

\* C9: for two literals of 2^k bits the driver builds exactly two parameter
\* sets, indices 0 and 1, equal in N, K, CHUNK_LUTS, chunk keys {INIT} and
\* chunk cap 2^k * chunk_luts; each INIT is the stripped bits repeated n times
\* under the declared width n * 2^k.
C9_PairDesign ==
    (pc # "main" /\ PairAccepted) =>
        /\ pc # "raised"
        /\ Len(dyn_params) = 2
        /\ dyn_params[1].param_index = 0 /\ dyn_params[2].param_index = 1
        /\ \A j \in {1, 2} :
              /\ dyn_params[j].verilog_parameters.N = config.n
              /\ dyn_params[j].verilog_parameters.K = config.k
              /\ dyn_params[j].verilog_parameters.CHUNK_LUTS = config.chunk_luts
              /\ dyn_params[j].chunk_keys = {"INIT"}
              /\ dyn_params[j].chunk_bits = ContentWidth * config.chunk_luts
              /\ DOMAIN dyn_params[j].verilog_parameters
                    = {"N", "K", "CHUNK_LUTS", "INIT"}
        /\ dyn_params[1].verilog_parameters.INIT = ExpectedInit(config.base_pat)
        /\ dyn_params[2].verilog_parameters.INIT = ExpectedInit(config.inv_pat)

C9_Witness ==
    /\ pc = "run" /\ config = DefaultConfig
    /\ dyn_params[1].verilog_parameters.INIT =
          <<"4", "8", "'", "b">>
            \o Repeat(<<"0", "0", "0", "1", "0", "1", "1", "0",
                        "0", "1", "1", "0", "1", "0", "0", "0">>, 3)
    /\ dyn_params[2].verilog_parameters.INIT # dyn_params[1].verilog_parameters.INIT

\* ------------------------------------------------- properties of SpecChain
\* the row the build of group g appended (groups are built in order)
OwnRow(g) == results[g]

\* C10 (as claimed): a group whose own build failed is skipped and saves no
\* row; a group whose build succeeded has total_bits from the offsets of its
\* own row; no result row is used by two groups.
C10_OwnResult ==
    /\ \A g \in 1..Len(stats) :
          /\ ~OwnRow(g).success => stats[g].outcome = "skipped"
          /\ OwnRow(g).success =>
                /\ stats[g].outcome = "saved"
                /\ stats[g].total_bits = Cardinality(OwnRow(g).data.offsets)
    /\ \A g \in 1..Len(stats), h \in 1..Len(stats) :
          (g # h /\ stats[g].row # 0) => stats[g].row # stats[h].row

====
